---- MODULE Spec2Model ----
(***************************************************************************)
(* Model of src/main.py: the Todo hierarchy (add_subtask, mark_complete),  *)
(* the reward engine (RandomPool, Box, LootBox) and task creation           *)
(* (SimpleTaskCreationStrategy.create_task).                               *)
(***************************************************************************)
EXTENDS Integers, Sequences, FiniteSets, TLC

\* ------------------------------------------------------------------ bounds
NTodos == 3          \* number of Todo objects
MaxSubtasks == 2     \* add_subtask calls over the whole hierarchy
RecursionLimit == 5  \* nested mark_complete frames before RecursionError
MaxPoolSize == 2     \* largest Box.pool_size

\* ------------------------------------------------------- program constants
RollLow == 1
RollHigh == 1000

VARIABLES
    \* Todo hierarchy
    completed,            \* Todo.completed of every Todo
    required_subtasks,    \* Todo.required_subtasks of every Todo
    optional_subtasks,    \* Todo.optional_subtasks of every Todo
    last,                 \* the last mark_complete call and how it ended
    \* reward engine
    rewards,              \* Pool.rewards: the value of each Reward, by position
    pool_type,            \* what Box.pool holds: a RandomPool or a plain list
    box_class,            \* "Box" or "LootBox"
    key_name,             \* LootBox.key_name
    pool_size,            \* Box.pool_size
    pc,                   \* position of the running call
    call,                 \* the entry point of the running call and its argument
    modifier,             \* get_reward_pool's modifier
    reward_pool,          \* get_reward_pool's local list
    reward,               \* get_reward_pool's local candidate
    chance,               \* get_reward_pool's local chance, of this iteration
    result,               \* what the call returned or raised
    \* task creation
    todos,                \* the caller's list of Todos
    boxes,                \* create_task's reward_box, punishment_box and
                          \* quality_generator arguments
    task                  \* the running create_task invocation

todoVars == <<completed, required_subtasks, optional_subtasks, last>>
boxConf == <<rewards, pool_type, box_class, key_name, pool_size>>
boxRun == <<pc, call, modifier, reward_pool, reward, chance, result>>
boxVars == <<boxConf, boxRun>>
taskVars == <<todos, boxes, task>>
vars == <<todoVars, boxVars, taskVars>>

\* ------------------------------------------------------------------ Todo
Todos == 1..NTodos

NoCall == [op |-> "none"]

\* all(subtask.completed for subtask in self.required_subtasks), on flags c
AllRequiredCompleted(t, c) ==
    \A i \in DOMAIN required_subtasks[t] : c[required_subtasks[t][i]]

RECURSIVE mark_complete(_, _, _)

\* one `for subtask in ...: subtask.mark_complete()` loop, from position i;
\* an exception raised by a subtask ends the loop and propagates
complete_each(subtasks, i, st_depth) ==
    LET RECURSIVE loop(_, _)
        loop(j, st) ==
            IF j > Len(subtasks) \/ st.status # "ok" THEN st
            ELSE loop(j + 1, mark_complete(subtasks[j], st, st_depth[2]))
    IN loop(i, st_depth[1])

\* a _complete_subtasks that forgets the optional subtasks
complete_subtasks_required_only(t, st, depth) ==
    complete_each(required_subtasks[t], 1, <<st, depth>>)

\* Todo._complete_subtasks
complete_subtasks(t, st, depth) ==
    LET afterRequired == complete_each(required_subtasks[t], 1, <<st, depth>>)
    IN complete_each(optional_subtasks[t], 1, <<afterRequired, depth>>)

\* a mark_complete that completes without looking at the required subtasks
mark_complete_unguarded(t, st, depth) ==
    IF depth > RecursionLimit
    THEN [st EXCEPT !.status = "RecursionError"]
    ELSE complete_subtasks(t,
            [st EXCEPT !.completed[t] = TRUE,
                       !.log = Append(@, [todo |-> t, was |-> st.completed[t],
                                          guard |-> AllRequiredCompleted(t, st.completed)])],
            depth + 1)

\* Todo.mark_complete, as frame number `depth` of the call stack.
\* st = [completed, status, log]; log lists the executions of
\* `self.completed = True` with the flag before and the guard at that moment.
mark_complete(t, st, depth) ==
    IF depth > RecursionLimit
    THEN [st EXCEPT !.status = "RecursionError"]
    ELSE IF AllRequiredCompleted(t, st.completed)
    THEN complete_subtasks(t,
            [st EXCEPT !.completed[t] = TRUE,
                       !.log = Append(@, [todo |-> t, was |-> st.completed[t],
                                          guard |-> AllRequiredCompleted(t, st.completed)])],
            depth + 1)
    ELSE [st EXCEPT !.status = "Exception"]

TotalSubtasks ==
    LET RECURSIVE sum(_)
        sum(n) == IF n = 0 THEN 0
                  ELSE Len(required_subtasks[n]) + Len(optional_subtasks[n]) + sum(n - 1)
    IN sum(NTodos)

\* Todo.add_subtask
add_subtask(t, subtask, required) ==
    /\ TotalSubtasks < MaxSubtasks
    /\ IF required
       THEN /\ required_subtasks' = [required_subtasks EXCEPT ![t] = Append(@, subtask)]
            /\ UNCHANGED optional_subtasks
       ELSE /\ optional_subtasks' = [optional_subtasks EXCEPT ![t] = Append(@, subtask)]
            /\ UNCHANGED required_subtasks
    /\ last' = NoCall
    /\ UNCHANGED <<completed, boxVars, taskVars>>

\* a top-level call t.mark_complete()
MarkComplete(t) ==
    LET r == mark_complete(t, [completed |-> completed, status |-> "ok", log |-> <<>>], 1)
    IN /\ completed' = r.completed
       /\ last' = [op |-> "mark_complete", todo |-> t, status |-> r.status,
                   before |-> completed, log |-> r.log]
       /\ UNCHANGED <<required_subtasks, optional_subtasks, boxVars, taskVars>>

AddSubtask == \E t \in Todos, s \in Todos, required \in BOOLEAN : add_subtask(t, s, required)

MarkCompleteCall == \E t \in Todos : MarkComplete(t)

\* ---------------------------------------------------------- reward engine
\* select_reward's "no reward": the None a Python function returns by default
NoReward == 0

Unbound == <<>>                     \* a local not assigned yet
Bound(v) == <<v>>

NoResult == [kind |-> "unset", value |-> <<>>]
Returned(list) == [kind |-> "list", value |-> list]
ReturnedNone == [kind |-> "None", value |-> <<>>]
Raised(exc) == [kind |-> exc, value |-> <<>>]

\* the state of a box nobody is calling
NoBoxCall ==
    /\ pc = "idle"
    /\ call = [op |-> "none", key |-> "none"]
    /\ modifier = 0
    /\ reward_pool = <<>>
    /\ reward = Unbound
    /\ chance = Unbound
    /\ result = NoResult

BoxIdle ==
    /\ rewards = <<>>
    /\ pool_type = "RandomPool"
    /\ box_class = "Box"
    /\ key_name = "none"
    /\ pool_size = 0
    /\ NoBoxCall

NoTodoCall ==
    /\ completed = [t \in Todos |-> FALSE]
    /\ required_subtasks = [t \in Todos |-> <<>>]
    /\ optional_subtasks = [t \in Todos |-> <<>>]
    /\ last = NoCall

\* -------------------------------------------------------- task creation
NoTaskResult == [kind |-> "unset", box |-> "none", reward |-> NoReward]

\* create_task's frame before any call
IdleTask ==
    [pc |-> "idle", description |-> [text |-> "", updated |-> 0], importance |-> 0,
     quality |-> 0, modifier |-> 0, random_chance |-> Unbound, depth |-> 0,
     entry_len |-> 0, box |-> "none", result |-> NoTaskResult, beyond |-> FALSE]

\* nobody has called create_task
NoTask ==
    /\ todos = <<>>
    /\ boxes = [reward_box |-> [rewards |-> <<>>, pool_size |-> 0],
                punishment_box |-> [rewards |-> <<>>, pool_size |-> 0],
                quality_generator |-> [first |-> 0, updated |-> 0]]
    /\ task = IdleTask

Init == NoTodoCall /\ BoxIdle /\ NoTask

Next == AddSubtask \/ MarkCompleteCall

Spec == Init /\ [][Next]_vars

\* the reward lists the boxes are built from (Reward.value by position):
\* values a roll can reach under every, some or none of the modifiers
RewardLists == {<<>>, <<1000>>, <<1300>>, <<100, 1100>>}

\* quality * (11 - importance) for quality 42 and importance 17, 11 and 5
Modifiers == {-252, 0, 252}

KeyNames == {"gold", "silver"}

\* Box(pool_size, RandomPool(rewards)), LootBox(name, key_name, pool_size,
\* rewards) with the list its signature declares, and a LootBox handed a
\* RandomPool in place of the list
InitBox ==
    /\ NoTodoCall
    /\ NoTask
    /\ rewards \in RewardLists
    /\ pool_size \in 0..MaxPoolSize
    /\ \/ box_class = "Box" /\ pool_type = "RandomPool" /\ key_name = "none"
       \/ box_class = "LootBox" /\ pool_type \in {"list", "RandomPool"}
                                /\ key_name \in KeyNames
    /\ NoBoxCall

\* entry of Box.get_reward_pool: reward_pool = []
enter_get_reward_pool(m) ==
    /\ modifier' = m
    /\ reward_pool' = <<>>
    /\ reward' = Unbound
    /\ chance' = Unbound
    /\ result' = NoResult
    /\ pc' = "while"

\* a call box.get_reward_pool(m)
GetRewardPool(m) ==
    /\ pc \in {"idle", "done"}
    /\ box_class = "Box"
    /\ call' = [op |-> "get_reward_pool", key |-> "none"]
    /\ enter_get_reward_pool(m)
    /\ UNCHANGED <<todoVars, taskVars, boxConf>>

\* an open_box that delegates without comparing the key
open_box_any_key(key) ==
    /\ pc \in {"idle", "done"}
    /\ box_class = "LootBox"
    /\ call' = [op |-> "open_box", key |-> key]
    /\ enter_get_reward_pool(0)
    /\ UNCHANGED <<todoVars, taskVars, boxConf>>

\* a call box.open_box(key)
open_box(key) ==
    /\ pc \in {"idle", "done"}
    /\ box_class = "LootBox"
    /\ call' = [op |-> "open_box", key |-> key]
    /\ IF key = key_name
       THEN enter_get_reward_pool(0)
       ELSE /\ result' = ReturnedNone
            /\ pc' = "done"
            /\ modifier' = 0
            /\ reward_pool' = <<>>
            /\ reward' = Unbound
            /\ chance' = Unbound
    /\ UNCHANGED <<todoVars, taskVars, boxConf>>

\* RandomPool.select_reward with random.randint(0, len - 1) = index - 1:
\* the value returned, the rewards being left as they are
select_reward(index) ==
    IF rewards # <<>> THEN index ELSE NoReward

\* the indexes random.randint(0, len(self.rewards) - 1) can give, as
\* positions; one dummy position when the list is empty and nothing is drawn
Indexes == IF rewards # <<>> THEN DOMAIN rewards ELSE {1}

\* a selection that takes the reward out of the pool
SelectReward_removing(index) ==
    /\ pc = "while"
    /\ Len(reward_pool) < pool_size
    /\ pool_type = "RandomPool"
    /\ reward' = Bound(select_reward(index))
    /\ pc' = IF select_reward(index) # NoReward THEN "roll" ELSE "while"
    /\ rewards' = IF rewards # <<>>
                  THEN SubSeq(rewards, 1, index - 1) \o SubSeq(rewards, index + 1, Len(rewards))
                  ELSE rewards
    /\ chance' = Unbound
    /\ UNCHANGED <<todoVars, taskVars, pool_type, box_class, key_name, pool_size,
                   call, modifier, reward_pool, result>>

\* a loop that gives up and returns what it has when the pool has no reward
SelectReward_giving_up(index) ==
    /\ pc = "while"
    /\ Len(reward_pool) < pool_size
    /\ pool_type = "RandomPool"
    /\ reward' = Bound(select_reward(index))
    /\ pc' = IF select_reward(index) # NoReward THEN "roll" ELSE "done"
    /\ result' = IF select_reward(index) # NoReward THEN result ELSE Returned(reward_pool)
    /\ chance' = Unbound
    /\ UNCHANGED <<todoVars, taskVars, boxConf, call, modifier, reward_pool>>

\* `while len(reward_pool) < self.pool_size` holds:
\* reward = self.pool.select_reward(); if reward: ...
SelectReward(index) ==
    /\ pc = "while"
    /\ Len(reward_pool) < pool_size
    /\ IF pool_type # "RandomPool"
       THEN \* a list has no select_reward
            /\ result' = Raised("AttributeError")
            /\ pc' = "done"
            /\ UNCHANGED reward
       ELSE /\ reward' = Bound(select_reward(index))
            /\ pc' = IF select_reward(index) # NoReward THEN "roll" ELSE "while"
            /\ UNCHANGED result
    /\ chance' = Unbound   \* the previous iteration's chance is not read again
    /\ UNCHANGED <<todoVars, taskVars, boxConf, call, modifier, reward_pool>>

\* an acceptance test that appends whatever the chance
Roll_accept_all(roll) ==
    /\ pc = "roll"
    /\ chance' = Bound(roll + modifier)
    /\ reward_pool' = Append(reward_pool, reward[1])
    /\ pc' = "while"
    /\ UNCHANGED <<todoVars, taskVars, boxConf, call, modifier, reward, result>>

\* an acceptance test with > in place of >=
Roll_strict(roll) ==
    /\ pc = "roll"
    /\ chance' = Bound(roll + modifier)
    /\ reward_pool' = IF roll + modifier > rewards[reward[1]]
                      THEN Append(reward_pool, reward[1])
                      ELSE reward_pool
    /\ pc' = "while"
    /\ UNCHANGED <<todoVars, taskVars, boxConf, call, modifier, reward, result>>

\* chance = random.randint(1, 1000) + modifier with the roll given;
\* if chance >= reward.value: reward_pool.append(reward)
Roll(roll) ==
    /\ pc = "roll"
    /\ chance' = Bound(roll + modifier)
    /\ reward_pool' = IF roll + modifier >= rewards[reward[1]]
                      THEN Append(reward_pool, reward[1])
                      ELSE reward_pool
    /\ pc' = "while"
    /\ UNCHANGED <<todoVars, taskVars, boxConf, call, modifier, reward, result>>

\* the while condition fails: return reward_pool
Return ==
    /\ pc = "while"
    /\ ~(Len(reward_pool) < pool_size)
    /\ result' = Returned(reward_pool)
    /\ pc' = "done"
    /\ UNCHANGED <<todoVars, taskVars, boxConf, call, modifier, reward_pool, reward, chance>>

GetRewardPoolCall == \E m \in Modifiers : GetRewardPool(m)

OpenBoxCall == \E key \in KeyNames : open_box(key)

SelectRewardStep == \E index \in Indexes : SelectReward(index)

RollStep == \E roll \in RollLow..RollHigh : Roll(roll)

NextBox == GetRewardPoolCall \/ OpenBoxCall \/ SelectRewardStep \/ RollStep \/ Return

SpecBox == InitBox /\ [][NextBox]_vars

\* a roll of random.randint(1, 1000) can accept reward i under the modifier
Reachable(i) == rewards[i] <= RollHigh + modifier

\* the random source is fair: a candidate that can be accepted is selected
\* again and again, and a roll that accepts it comes up again and again
SelectReachable ==
    /\ rewards # <<>>
    /\ \E index \in DOMAIN rewards : Reachable(index) /\ SelectReward(index)

RollAccepting ==
    /\ pc = "roll"
    /\ \E roll \in RollLow..RollHigh :
          roll + modifier >= rewards[reward[1]] /\ Roll(roll)

FairSpecBox ==
    /\ SpecBox
    /\ WF_vars(SelectRewardStep) /\ WF_vars(RollStep) /\ WF_vars(Return)
    /\ SF_vars(SelectReachable) /\ SF_vars(RollAccepting)

\* -------------------------------------------------------- task creation
MaxRetries == 2     \* suggestion retries followed exactly

BranchLow == 1
BranchHigh == 10

\* descriptions: a text and the number of " (updated)" appended to it
MainTask == [text |-> "Main task", updated |-> 0]

\* a suggestion that hands the description back as it is
make_suggestion_unchanged(description) == description

\* SimpleSuggestionGenerator.make_suggestion: description + " (updated)"
make_suggestion(description) == [description EXCEPT !.updated = @ + 1]

\* QualityGenerator.generate_quality for a generator that tells a first
\* phrasing from an updated one; TestQualityGenerator is [42, 42]
generate_quality(generator, description) ==
    IF description.updated = 0 THEN generator.first ELSE generator.updated

QualityGenerators ==
    {[first |-> 42, updated |-> 42], [first |-> 0, updated |-> 0],
     [first |-> -3, updated |-> -3], [first |-> 0, updated |-> 42]}

Importances == {1, 10, 11, 12}

\* the Todo create_task constructs (difficulty from TestDifficultyGenerator)
Todo(description, importance, quality) ==
    [description |-> description, importance |-> importance, quality |-> quality,
     difficulty |-> 50, completed |-> FALSE]

\* a Todo the caller's list holds before the call
OldTodo == Todo([text |-> "Old task", updated |-> 0], 1, 0)

\* an add_todo that puts the new Todo in front
add_todo_in_front(list, todo) == <<todo>> \o list

\* add_todo: todos.append(todo)
add_todo(list, todo) == Append(list, todo)

\* modifier = quality * (11 - importance)
modifier_of(quality, importance) == quality * (11 - importance)

\* the pairs of boxes create_task is handed: both with rewards every
\* modifier reaches, both empty, both of pool_size 0, both with a reward
\* out of reach of the rolls
TaskBoxes ==
    {[reward_box |-> [rewards |-> <<100, 300>>, pool_size |-> 1],
      punishment_box |-> [rewards |-> <<50, 150>>, pool_size |-> 1]],
     [reward_box |-> [rewards |-> <<>>, pool_size |-> 1],
      punishment_box |-> [rewards |-> <<>>, pool_size |-> 1]],
     [reward_box |-> [rewards |-> <<100>>, pool_size |-> 0],
      punishment_box |-> [rewards |-> <<50>>, pool_size |-> 0]],
     [reward_box |-> [rewards |-> <<1500>>, pool_size |-> 1],
      punishment_box |-> [rewards |-> <<1000>>, pool_size |-> 1]]}

InitTask ==
    /\ NoTodoCall
    /\ BoxIdle
    /\ todos = <<OldTodo>>
    /\ \E b \in TaskBoxes, g \in QualityGenerators :
          boxes = [reward_box |-> b.reward_box, punishment_box |-> b.punishment_box,
                   quality_generator |-> g]
    /\ task = IdleTask

\* box.get_reward_pool(m) called by create_task on its box of that name
draw(name, m) ==
    /\ rewards' = boxes[name].rewards
    /\ pool_size' = boxes[name].pool_size
    /\ call' = [op |-> "create_task", key |-> "none"]
    /\ enter_get_reward_pool(m)
    /\ UNCHANGED <<pool_type, box_class, key_name>>

\* the frame of invocation number depth + 1, at the branch it takes
frame(description, importance, depth, at, name) ==
    [pc |-> at, description |-> description, importance |-> importance,
     quality |-> generate_quality(boxes.quality_generator, description),
     modifier |-> modifier_of(generate_quality(boxes.quality_generator, description),
                              importance),
     random_chance |-> Unbound, depth |-> depth,
     entry_len |-> IF depth = 0 THEN Len(todos) ELSE task.entry_len,
     box |-> name, result |-> NoTaskResult, beyond |-> FALSE]

\* a create_task that opens the punishment box on the reward branch
create_task_wrong_box(description, importance, depth) ==
    /\ todos' = add_todo(todos, Todo(description, importance,
                    generate_quality(boxes.quality_generator, description)))
    /\ IF frame(description, importance, depth, "", "").modifier > 0
       THEN /\ task' = frame(description, importance, depth, "reward_draw", "punishment_box")
            /\ draw("punishment_box", task'.modifier)
       ELSE /\ task' = frame(description, importance, depth, "roll10", "none")
            /\ UNCHANGED boxVars
    /\ UNCHANGED <<todoVars, boxes>>

\* create_task from its entry to the branch on modifier (lines 179-185 and
\* 196): the new Todo is appended, then the reward box is opened or the
\* branch roll is awaited
create_task(description, importance, depth) ==
    /\ todos' = add_todo(todos, Todo(description, importance,
                    generate_quality(boxes.quality_generator, description)))
    /\ IF frame(description, importance, depth, "", "").modifier > 0
       THEN /\ task' = frame(description, importance, depth, "reward_draw", "reward_box")
            /\ draw("reward_box", task'.modifier)
       ELSE /\ task' = frame(description, importance, depth, "roll10", "none")
            /\ UNCHANGED boxVars
    /\ UNCHANGED <<todoVars, boxes>>

\* the caller's call of create_task
CreateTask(importance) ==
    /\ task.pc = "idle"
    /\ create_task(MainTask, importance, 0)

\* random_chance = random.randint(1, 10)
BranchRoll(roll) ==
    /\ task.pc = "roll10"
    /\ task' = [task EXCEPT !.random_chance = Bound(roll), !.pc = "test"]
    /\ UNCHANGED <<todoVars, boxVars, todos, boxes>>

\* a branch test with > in place of >=
BranchTest_strict ==
    /\ task.pc = "test"
    /\ IF task.random_chance[1] > task.importance
       THEN /\ task' = [task EXCEPT !.pc = "punish_draw", !.box = "punishment_box",
                                    !.random_chance = Unbound]
            /\ draw("punishment_box", task.modifier)
            /\ UNCHANGED <<todoVars, todos, boxes>>
       ELSE /\ task.depth < MaxRetries
            /\ create_task(make_suggestion(task.description), task.importance,
                           task.depth + 1)

\* a punishment draw that leaves the modifier out
BranchTest_no_modifier ==
    /\ task.pc = "test"
    /\ IF task.random_chance[1] >= task.importance
       THEN /\ task' = [task EXCEPT !.pc = "punish_draw", !.box = "punishment_box",
                                    !.random_chance = Unbound]
            /\ draw("punishment_box", 0)
            /\ UNCHANGED <<todoVars, todos, boxes>>
       ELSE /\ task.depth < MaxRetries
            /\ create_task(make_suggestion(task.description), task.importance,
                           task.depth + 1)

\* if random_chance >= importance: open the punishment box with the same
\* modifier; else: recurse on make_suggestion(description) (lines 198-212).
\* random_chance is not read after this test.
BranchTest ==
    /\ task.pc = "test"
    /\ IF task.random_chance[1] >= task.importance
       THEN /\ task' = [task EXCEPT !.pc = "punish_draw", !.box = "punishment_box",
                                    !.random_chance = Unbound]
            /\ draw("punishment_box", task.modifier)
            /\ UNCHANGED <<todoVars, todos, boxes>>
       ELSE /\ task.depth < MaxRetries
            /\ create_task(make_suggestion(task.description), task.importance,
                           task.depth + 1)

\* the retries after MaxRetries: the same branch on the same modifier, the
\* further Todos and descriptions not recorded
SuggestBeyond ==
    /\ task.pc = "test"
    /\ task.random_chance[1] < task.importance
    /\ task.depth = MaxRetries
    /\ generate_quality(boxes.quality_generator, make_suggestion(task.description))
         = task.quality
    /\ task' = [task EXCEPT !.pc = "roll10", !.random_chance = Unbound, !.beyond = TRUE]
    /\ UNCHANGED <<todoVars, boxVars, todos, boxes>>

\* the positions random.randint(0, len - 1) can give in the drawn list
Picks == IF result.value # <<>> THEN DOMAIN result.value ELSE {1}

\* create_task returns: get_reward_pool's frame is gone
return_from_create_task(outcome) ==
    /\ task' = [task EXCEPT !.pc = "returned", !.result = outcome]
    /\ pc' = "idle"
    /\ call' = [op |-> "none", key |-> "none"]
    /\ modifier' = 0
    /\ reward_pool' = <<>>
    /\ reward' = Unbound
    /\ chance' = Unbound
    /\ result' = NoResult
    /\ UNCHANGED <<todoVars, boxConf, todos, boxes>>

\* the Reward of the drawn box at position r of its pool
TheReward(r) == [kind |-> "Reward", box |-> task.box, reward |-> r]
NoneReturned == [kind |-> "None", box |-> "none", reward |-> NoReward]

\* lines 187-195: if rewards: reward = RandomPool(rewards).select_reward();
\* return reward; else: return None
RewardDone(pick) ==
    /\ task.pc = "reward_draw"
    /\ pc = "done"
    /\ IF result.value # <<>>
       THEN return_from_create_task(TheReward(result.value[pick]))
       ELSE return_from_create_task(NoneReturned)

\* lines 200-208: reward = RandomPool(rewards).select_reward();
\* if rewards: return reward; else: return None
PunishDone(pick) ==
    /\ task.pc = "punish_draw"
    /\ pc = "done"
    /\ LET selected == IF result.value # <<>> THEN result.value[pick] ELSE NoReward
       IN IF result.value # <<>>
          THEN return_from_create_task(TheReward(selected))
          ELSE return_from_create_task(NoneReturned)

CreateTaskCall == \E importance \in Importances : CreateTask(importance)

BranchRollStep == \E roll \in BranchLow..BranchHigh : BranchRoll(roll)

RewardDoneStep == \E pick \in Picks : RewardDone(pick)

PunishDoneStep == \E pick \in Picks : PunishDone(pick)

NextTask ==
    \/ CreateTaskCall \/ BranchRollStep \/ BranchTest
    \/ SelectRewardStep \/ RollStep \/ Return
    \/ RewardDoneStep \/ PunishDoneStep

SpecTask == InitTask /\ [][NextTask]_vars

\* a branch roll that ends the retries comes up again and again
BranchRollEnding ==
    \E roll \in BranchLow..BranchHigh : roll >= task.importance /\ BranchRoll(roll)

NextTaskFair == NextTask \/ SuggestBeyond

FairSpecTask ==
    /\ InitTask /\ [][NextTaskFair]_vars
    /\ WF_vars(CreateTaskCall) /\ WF_vars(BranchRollStep) /\ WF_vars(BranchTest)
    /\ WF_vars(SuggestBeyond)
    /\ WF_vars(SelectRewardStep) /\ WF_vars(RollStep) /\ WF_vars(Return)
    /\ WF_vars(RewardDoneStep) /\ WF_vars(PunishDoneStep)
    /\ SF_vars(SelectReachable) /\ SF_vars(RollAccepting) /\ SF_vars(BranchRollEnding)

\* ------------------------------------------------- Todo hierarchy: claims
Range(seq) == {seq[i] : i \in DOMAIN seq}

Subtasks(t) == Range(required_subtasks[t]) \cup Range(optional_subtasks[t])

\* every Todo reachable from t through required_subtasks or optional_subtasks
Descendants(t) ==
    LET RECURSIVE grow(_)
        grow(S) == LET S2 == S \cup UNION {Subtasks(s) : s \in S}
                   IN IF S2 = S THEN S ELSE grow(S2)
    IN grow(Subtasks(t))

\* the hierarchy is a hierarchy: no Todo is its own descendant
Acyclic == \A t \in Todos : t \notin Descendants(t)

Called == last.op = "mark_complete"

\* the call ended with "Not all required subtasks are complete"
PrerequisiteError == Called /\ last.status = "Exception"

\* a required subtask of the called Todo was incomplete when the call was made
RequiredIncompleteBefore ==
    \E s \in Range(required_subtasks[last.todo]) : ~last.before[s]

\* C1: t.mark_complete() fails with the prerequisite error and leaves
\* t.completed false if and only if a required subtask of t was incomplete
\* at the call; so a call made with every required subtask completed never
\* fails. Stated for hierarchies without cycles.
C1_FailsIffRequiredIncomplete ==
    (Called /\ Acyclic) =>
        /\ (PrerequisiteError /\ ~completed[last.todo]) <=> RequiredIncompleteBefore
        /\ ~RequiredIncompleteBefore => ~PrerequisiteError

\* C2: a mark_complete that ends with the prerequisite error leaves every
\* completed flag as it was before the call. Stated for hierarchies without
\* cycles.
C2_NoPartialCompletion ==
    (PrerequisiteError /\ Acyclic) => completed = last.before

\* C3: when t.mark_complete() returns without error, t and every Todo
\* reachable from t through required or optional subtasks is completed.
C3_SuccessCompletesHierarchy ==
    (Called /\ last.status = "ok") =>
        \A s \in {last.todo} \cup Descendants(last.todo) : completed[s]

\* a successful call on a Todo with a subtask that has a subtask of its own,
\* the grandchild incomplete before the call
C3_Witness ==
    /\ Called /\ last.status = "ok"
    /\ \E c \in Subtasks(last.todo) \ {last.todo} :
          \E g \in Subtasks(c) \ {c, last.todo} : ~last.before[g] /\ completed[g]

\* C4: a mark_complete called with all required subtasks completed leaves
\* every optional subtask completed, whatever the optional subtask's own
\* prerequisites. Stated for hierarchies without cycles.
C4_OptionalAutoCompleted ==
    (Called /\ Acyclic /\ ~RequiredIncompleteBefore) =>
        \A o \in Range(optional_subtasks[last.todo]) : completed[o]

\* C5: a completed flag changes only from false to true, only by an
\* assignment made while every required subtask of that Todo is completed,
\* and never changes back.
C5_CompletedStep ==
    \A t \in Todos :
        /\ completed[t] => completed'[t]
        /\ completed'[t] # completed[t] =>
              /\ last'.op = "mark_complete"
              /\ AllRequiredCompleted(t, completed)'
              /\ \E i \in DOMAIN last'.log :
                    last'.log[i].todo = t /\ ~last'.log[i].was
        /\ last'.op = "mark_complete" =>
              \A i \in DOMAIN last'.log : last'.log[i].guard

\* C5, over every step of add_subtask and mark_complete: the completed flags
\* change only as C5_CompletedStep allows.
C5_CompletedMonotone == [][C5_CompletedStep]_vars

\* a successful call that completed a Todo which has required subtasks
C5_Witness ==
    /\ Called /\ last.status = "ok"
    /\ \E i \in DOMAIN last.log :
          /\ ~last.log[i].was
          /\ required_subtasks[last.log[i].todo] # <<>>

\* -------------------------------------------------- reward engine: claims
IsPoolMember(r) == r \in DOMAIN rewards

\* C6: what get_reward_pool returns has exactly pool_size elements, each a
\* member of the pool, and an element is appended exactly in an iteration
\* whose roll r in 1..1000 has r + modifier >= the candidate's value.
C6_ReturnedPool ==
    (pc = "done" /\ result.kind = "list") =>
        /\ Len(result.value) = pool_size
        /\ \A i \in DOMAIN result.value : IsPoolMember(result.value[i])

C6_AppendStep ==
    /\ pc = "roll" =>
          /\ (chance'[1] - modifier) \in RollLow..RollHigh
          /\ IF chance'[1] >= rewards[reward[1]]
             THEN reward_pool' = Append(reward_pool, reward[1])
             ELSE reward_pool' = reward_pool
    /\ pc # "roll" => (reward_pool' = reward_pool \/ reward_pool' = <<>>)

\* C6, in full: every returned list is as C6_ReturnedPool says and every
\* iteration appends exactly as C6_AppendStep says.
C6_ExactlyPoolSizeAccepted == []C6_ReturnedPool /\ [][C6_AppendStep]_vars

\* get_reward_pool(252) returned two rewards, one of them the reward valued
\* 1100, which only a roll of 848 or more accepts
C6_Witness ==
    /\ pc = "done" /\ call.op = "get_reward_pool" /\ result.kind = "list"
    /\ modifier = 252 /\ pool_size = 2
    /\ \E i \in DOMAIN result.value : rewards[result.value[i]] = 1100

\* the running call is in the loop of a box whose pool is a non-empty
\* RandomPool holding a reward the roll can reach
C7_CanSucceed ==
    /\ pc \in {"while", "roll"}
    /\ pool_type = "RandomPool"
    /\ rewards # <<>>
    /\ \E i \in DOMAIN rewards : Reachable(i)

\* C7: with a non-empty pool holding a reward of value <= 1000 + modifier,
\* and fair selection and rolls, get_reward_pool eventually returns exactly
\* pool_size rewards.
C7_EventuallyReturns ==
    C7_CanSucceed ~>
        (pc = "done" /\ result.kind = "list" /\ Len(result.value) = pool_size)

\* a call that returned after rejecting nothing but needing the one roll
\* that reaches its only reward: value 1000 under modifier 0
C7_Witness ==
    /\ pc = "done" /\ result.kind = "list"
    /\ rewards = <<1000>> /\ modifier = 0 /\ pool_size = 2
    /\ Len(result.value) = 2

\* C8: select_reward returns a member of the pool's rewards when there are
\* any and "no reward" exactly when there are none, and no selection and no
\* get_reward_pool iteration changes the rewards.
C8_Selected ==
    reward # Unbound =>
        /\ reward[1] = NoReward <=> rewards = <<>>
        /\ reward[1] # NoReward => IsPoolMember(reward[1])

\* C8, in full: every selection is as C8_Selected says and no step changes
\* the rewards.
C8_NonDestructiveRead == []C8_Selected /\ [][rewards' = rewards]_vars

\* the same reward drawn and accepted twice in one call
C8_Witness ==
    /\ Len(rewards) = 2 /\ Len(reward_pool) = 2
    /\ reward_pool[1] = reward_pool[2]

\* select_reward on an empty pool returned "no reward"
C8_WitnessEmpty == rewards = <<>> /\ reward = Bound(NoReward)

\* C9: open_box with a key whose key_name differs from the box's returns
\* the failure sentinel, which is not an empty list, selects nothing, rolls
\* nothing and leaves the box and its pool unchanged.
C9_Denied ==
    (call.op = "open_box" /\ call.key # key_name) =>
        /\ pc = "done"
        /\ result = ReturnedNone /\ result # Returned(<<>>)
        /\ reward = Unbound /\ chance = Unbound /\ reward_pool = <<>>

C9_DeniedStep ==
    (call'.op = "open_box" /\ call'.key # key_name) => UNCHANGED boxConf

\* C9, in full: a denied open_box ends as C9_Denied says and its step
\* leaves the box as C9_DeniedStep says.
C9_MismatchDenied == []C9_Denied /\ [][C9_DeniedStep]_vars

\* open_box was denied on a box with rewards to give
C9_Witness ==
    /\ call.op = "open_box" /\ call.key # key_name /\ pc = "done"
    /\ rewards # <<>> /\ pool_size > 0

\* C10: open_box with the matching key, on a LootBox built from a list of
\* rewards as its constructor declares, returns what get_reward_pool()
\* with modifier 0 returns on those rewards: a list of pool_size of them.
\* Stated for a non-empty list of rewards.
C10_OpenBoxAsGetRewardPool ==
    (pc = "done" /\ call.op = "open_box" /\ call.key = key_name
                 /\ pool_type = "list" /\ rewards # <<>>) =>
        /\ result.kind = "list"
        /\ Len(result.value) = pool_size
        /\ \A i \in DOMAIN result.value : IsPoolMember(result.value[i])

\* the same, when the LootBox is handed a RandomPool in place of the list
C10_WithRandomPool ==
    (pc = "done" /\ call.op = "open_box" /\ call.key = key_name
                 /\ pool_type = "RandomPool") =>
        /\ result.kind = "list"
        /\ Len(result.value) = pool_size
        /\ \A i \in DOMAIN result.value : IsPoolMember(result.value[i])


\* the running or finished call is a get_reward_pool, entered directly or
\* through open_box with the matching key
InGetRewardPool ==
    \/ call.op = "get_reward_pool"
    \/ call.op = "open_box" /\ call.key = key_name

\* C17: with a non-empty pool whose every reward has value > 1000 + modifier
\* and pool_size >= 1, get_reward_pool never returns: no candidate is ever
\* accepted, the accumulated list stays empty and there is no result.
C17_NeverReturns ==
    (/\ InGetRewardPool /\ pool_type = "RandomPool"
     /\ pool_size >= 1 /\ rewards # <<>>
     /\ \A i \in DOMAIN rewards : ~Reachable(i)) =>
        /\ pc \in {"while", "roll"}
        /\ reward_pool = <<>>
        /\ result = NoResult

\* the reward valued 1300 was rolled for under modifier 252 and rejected
C17_Witness ==
    /\ InGetRewardPool /\ pc = "while"
    /\ rewards = <<1300>> /\ modifier = 252 /\ pool_size >= 1
    /\ chance # Unbound /\ reward_pool = <<>>

\* C19: in every reachable state every completed Todo has all its required
\* subtasks completed. Stated for hierarchies without cycles.
C19_CompletedHaveRequiredCompleted ==
    Acyclic => \A t \in Todos : completed[t] => AllRequiredCompleted(t, completed)

\* C20: mark_complete ends by itself, by returning or by raising its
\* prerequisite error, on every hierarchy add_subtask can build, cycles
\* included: the recursion does not go on until the call stack is exhausted.
C20_RecursionEnds ==
    Called => last.status \in {"ok", "Exception"}


\* ------------------------------------------------- task creation: claims
TaskCalled == task.pc # "idle"

\* the invocation at hand has taken the reward branch
OnRewardBranch == task.pc = "reward_draw" \/ task.box = "reward_box"

\* the step is the entry of an invocation of create_task
Invokes ==
    \/ task.pc = "idle" /\ task'.pc # "idle"
    \/ task.pc = "test" /\ task'.depth = task.depth + 1

\* C13's cases: importance > 10 with quality positive, or quality non-positive
C13_Cases ==
    \/ task.importance > 10 /\ task.quality > 0
    \/ task.quality <= 0

\* C13, the sign: in its cases the modifier quality * (11 - importance) is
\* negative
C13_ModifierNegative ==
    (TaskCalled /\ C13_Cases) => task.modifier < 0

\* C13: when importance > 10 with quality positive, and whenever quality is
\* non-positive, create_task does not take the reward branch
C13_NoRewardBranch ==
    (TaskCalled /\ C13_Cases) => ~OnRewardBranch

\* C12: every invocation of create_task appends exactly one Todo to the end
\* of todos and nothing else changes the list (the old list is a prefix of the
\* new one at every step); after d suggestion retries the list has grown by
\* 1 + d and the appended Todos carry the successive descriptions in order
C12_AppendStep ==
    /\ Len(todos') >= Len(todos)
    /\ SubSeq(todos', 1, Len(todos)) = todos
    /\ Len(todos') = IF Invokes THEN Len(todos) + 1 ELSE Len(todos)

C12_Grown ==
    TaskCalled =>
        /\ Len(todos) = task.entry_len + 1 + task.depth
        /\ \A k \in 0..task.depth :
              /\ todos[task.entry_len + 1 + k].description
                   = [text |-> MainTask.text, updated |-> k]
              /\ todos[task.entry_len + 1 + k].importance = task.importance
        /\ SubSeq(todos, 1, task.entry_len) = <<OldTodo>>

C12_AppendsOnePerInvocation == [][C12_AppendStep]_vars /\ []C12_Grown

C12_Witness ==
    /\ task.pc = "returned"
    /\ task.depth = 2
    /\ Len(todos) = 4
    /\ todos[4].description.updated = 2


\* the invocation at hand computed modifier > 0 and every reward of the
\* reward box has value <= 1000
RewardCase ==
    /\ TaskCalled
    /\ task.modifier > 0
    /\ \A i \in DOMAIN boxes.reward_box.rewards : boxes.reward_box.rewards[i] <= RollHigh

\* create_task has returned a Reward of the box of that name
ReturnedRewardOf(name) ==
    /\ task.pc = "returned"
    /\ task.result.kind = "Reward"
    /\ task.result.box = name
    /\ task.result.reward \in DOMAIN boxes[name].rewards

\* C11 as stated, its result: with modifier > 0 (of a positive quality) and
\* every reward of the reward box of value <= 1000, what create_task returns
\* is a Reward of the reward box
C11_ReturnsReward ==
    (RewardCase /\ task.quality > 0 /\ task.pc = "returned") =>
        ReturnedRewardOf("reward_box")

\* C11 as stated, its termination: in the same case create_task returns
C11_Terminates == (RewardCase /\ task.quality > 0) ~> task.pc = "returned"

\* with modifier > 0 the invocation is at the reward box or has returned from
\* it: no branch roll, no punishment box
C11_OnlyRewardBox ==
    (TaskCalled /\ task.modifier > 0) =>
        /\ task.pc \in {"reward_draw", "returned"}
        /\ task.box = "reward_box"
        /\ task.random_chance = Unbound
        /\ task.pc = "reward_draw" =>
              /\ rewards = boxes.reward_box.rewards
              /\ pool_size = boxes.reward_box.pool_size
              /\ modifier = task.modifier
        /\ task.pc = "returned" =>
              \/ ReturnedRewardOf("reward_box")
              \/ task.result = NoneReturned

\* with modifier > 0 no step appends a Todo, asks for a suggestion or recurses
C11_NoRecursionStep ==
    (TaskCalled /\ task.modifier > 0) =>
        /\ todos' = todos
        /\ task'.description = task.description
        /\ task'.depth = task.depth
        /\ task'.modifier = task.modifier

\* C11, amended: with modifier > 0 and a reward box of pool_size >= 1 that
\* holds at least one reward, all of value <= 1000, create_task terminates
\* (under a fair random source) and returns a Reward of the reward box; with
\* modifier > 0 the punishment box is never drawn from, no suggestion is asked
\* for and no recursion happens
C11_RewardBranch ==
    /\ (/\ RewardCase
        /\ boxes.reward_box.rewards # <<>>
        /\ boxes.reward_box.pool_size >= 1) ~> ReturnedRewardOf("reward_box")
    /\ []C11_OnlyRewardBox
    /\ [][C11_NoRecursionStep]_vars

C11_Witness ==
    /\ ReturnedRewardOf("reward_box")
    /\ task.modifier = 42
    /\ boxes.reward_box.rewards = <<100, 300>>
    /\ task.result.reward = 2


\* with modifier <= 0 the invocation awaits or holds one branch roll in 1..10,
\* or is at the punishment box, or has returned from it; never the reward box
C14_NeverRewardBox ==
    (TaskCalled /\ task.modifier <= 0) =>
        /\ task.box # "reward_box"
        /\ task.pc \in {"roll10", "test", "punish_draw", "returned"}
        /\ task.pc = "roll10" => task.random_chance = Unbound /\ pc = "idle"
        /\ task.pc = "test" =>
              /\ task.random_chance # Unbound
              /\ task.random_chance[1] \in BranchLow..BranchHigh
              /\ pc = "idle"
        /\ task.pc = "punish_draw" =>
              /\ task.box = "punishment_box"
              /\ rewards = boxes.punishment_box.rewards
              /\ pool_size = boxes.punishment_box.pool_size
              /\ modifier = task.modifier
        /\ task.pc = "returned" =>
              \/ ReturnedRewardOf("punishment_box")
              \/ task.result = NoneReturned

\* the step from the branch test: roll >= importance opens the punishment box
\* with the invocation's modifier, without a new Todo, a new description or a
\* deeper invocation; roll < importance ends the invocation's own work with
\* no box opened by it (the next draw, if any, is the next invocation's)
C14_BranchStep ==
    (task.pc = "test" /\ task.modifier <= 0) =>
        IF task.random_chance[1] >= task.importance
        THEN /\ task'.pc = "punish_draw"
             /\ modifier' = task.modifier
             /\ rewards' = boxes.punishment_box.rewards
             /\ todos' = todos
             /\ task'.description = task.description
             /\ task'.depth = task.depth
        ELSE /\ task'.depth = task.depth + 1
             /\ task'.pc # "punish_draw"
             /\ pc = "idle"

\* C14: with modifier <= 0 create_task draws one branch roll in 1..10 and
\* never opens the reward box; roll >= importance opens the punishment box
\* with the same modifier and a returned Reward is one of the punishment
\* box's, with no suggestion and no recursion; roll < importance opens no box
\* in that invocation
C14_PunishmentBranch == []C14_NeverRewardBox /\ [][C14_BranchStep]_vars

C14_Witness ==
    /\ ReturnedRewardOf("punishment_box")
    /\ task.modifier = -30
    /\ task.depth = 0
    /\ boxes.punishment_box.rewards = <<50, 150>>
    /\ task.result.reward = 2


\* the quality generator yields modifier <= 0 for every description at the
\* importance of the call
NeverPositive ==
    /\ modifier_of(boxes.quality_generator.first, task.importance) <= 0
    /\ modifier_of(boxes.quality_generator.updated, task.importance) <= 0

\* the step from a branch test with roll < importance is the recursive call:
\* the description is make_suggestion(description), the importance, the
\* generators and the boxes are the same, one Todo is appended
C15_SuggestionStep ==
    (task.pc = "test" /\ task.random_chance[1] < task.importance) =>
        /\ task'.description = make_suggestion(task.description)
        /\ task'.description.text = task.description.text
        /\ task'.description.updated = task.description.updated + 1
        /\ task'.importance = task.importance
        /\ task'.depth = task.depth + 1
        /\ task'.quality = generate_quality(boxes.quality_generator, task'.description)
        /\ boxes' = boxes
        /\ Len(todos') = Len(todos) + 1
        /\ todos'[Len(todos')].description = task'.description

\* with importance > 10 and modifier <= 0 for every description, no
\* invocation opens a box or returns: each is before its branch roll or at a
\* test that fails, and todos has one Todo per invocation so far
C15_NeverReturns ==
    (TaskCalled /\ task.importance > 10 /\ NeverPositive) =>
        /\ task.pc \in {"roll10", "test"}
        /\ task.pc = "test" => task.random_chance[1] < task.importance
        /\ task.result = NoTaskResult
        /\ Len(todos) = task.entry_len + 1 + task.depth

\* C15: on the suggestion path create_task recurses with
\* make_suggestion(description) and the same importance, generators and
\* boxes; with importance > 10 and modifier <= 0 for every description every
\* invocation takes the suggestion branch whatever the roll, create_task
\* never returns and todos grows by one Todo per invocation
C15_SuggestionPath == [][C15_SuggestionStep]_vars /\ []C15_NeverReturns

C15_Witness ==
    /\ task.pc = "test"
    /\ task.importance = 11
    /\ task.quality = 0
    /\ task.random_chance = Bound(10)
    /\ task.depth = 2
    /\ Len(todos) = 4


\* get_reward_pool(m) on the box ends under a fair random source: nothing to
\* fill, or a reward the rolls can reach
DrawEnds(box, m) ==
    \/ box.pool_size = 0
    \/ \E i \in DOMAIN box.rewards : box.rewards[i] <= RollHigh + m

\* the box a modifier sends create_task to ends its draw
BoxEndsFor(m) ==
    IF m > 0 THEN DrawEnds(boxes.reward_box, m) ELSE DrawEnds(boxes.punishment_box, m)

\* the draws end for the modifier of the invocation at hand and for the
\* modifier of the invocations a suggestion leads to
BoxesTerminate ==
    /\ BoxEndsFor(task.modifier)
    /\ BoxEndsFor(modifier_of(boxes.quality_generator.updated, task.importance))

\* create_task returns from a box draw only, and with importance <= 1 the
\* step from the branch test is never the suggestion
C16_ReturnStep ==
    /\ (task'.pc = "returned" /\ task.pc # "returned") =>
           task.pc \in {"reward_draw", "punish_draw"} /\ pc = "done"
    /\ (task.pc = "test" /\ task.importance <= 1) =>
           /\ task'.pc = "punish_draw"
           /\ task'.depth = task.depth
           /\ todos' = todos

\* C16: create_task terminates exactly when a branch other than the
\* suggestion is taken: for importance <= 10 and boxes whose draws end for
\* the modifiers used it eventually returns under fair branch rolls, and for
\* importance <= 1 the suggestion branch is never taken
C16_EventuallyReturns ==
    /\ (TaskCalled /\ task.importance <= 10 /\ BoxesTerminate) ~> task.pc = "returned"
    /\ [][C16_ReturnStep]_vars

C16_Witness ==
    /\ task.pc = "returned"
    /\ task.importance = 10
    /\ task.beyond
    /\ task.result.kind = "Reward"


\* C18: for a box with pool_size >= 1, get_reward_pool never returns an empty
\* list (on an empty pool it stays in its loop), so create_task's "Failed to
\* open" branches are not reached and a create_task that returns from such a
\* box returns a Reward, never None
C18_NeverEmptyList ==
    /\ (pc = "done" /\ result.kind = "list" /\ pool_size >= 1) => result.value # <<>>
    /\ (pc \in {"while", "roll"} /\ pool_size >= 1 /\ rewards = <<>>) =>
           /\ pc = "while"
           /\ reward_pool = <<>>
           /\ result = NoResult
    /\ (task.pc = "returned" /\ boxes[task.box].pool_size >= 1) =>
           /\ task.result # NoneReturned
           /\ ReturnedRewardOf(task.box)

C18_Witness ==
    /\ task.pc = "punish_draw"
    /\ boxes.punishment_box = [rewards |-> <<>>, pool_size |-> 1]
    /\ pc = "while"
    /\ reward = Bound(NoReward)
    /\ reward_pool = <<>>

C18_WitnessReturned ==
    /\ task.pc = "returned"
    /\ boxes[task.box].pool_size >= 1
    /\ task.result.kind = "Reward"

====
